---- MODULE Spec2Model ----
(***************************************************************************)
(* TimerEngine (src/src/js/components/TimerEngine.js): the phase/time      *)
(* state of the Pomodoro timer, its control operations, the two timer      *)
(* callbacks (requestAnimationFrame tick, setInterval corrector), the      *)
(* visibilitychange handler and the persisted snapshot.                    *)
(*                                                                         *)
(* Times are milliseconds, as in the source.  A JavaScript number is an    *)
(* integer of the model; NaN, +Infinity and -Infinity are three reserved   *)
(* integers outside every value the arithmetic of the model can produce,   *)
(* and null (startTimestamp, lastTickTime, rafId, intervalId) is a fourth. *)
(***************************************************************************)
EXTENDS Integers, Sequences, FiniteSets, TLC

VARIABLES
  state,           \* this.state: phase, remainingTime, totalTime, isRunning, currentCycle, sessionCount
  config,          \* this.config: focusTime, shortBreakTime, longBreakTime, longBreakInterval
  startTimestamp,  \* this.startTimestamp
  pausedDuration,  \* this.pausedDuration
  rafId,           \* this.rafId
  intervalId,      \* this.intervalId
  lastTickTime,    \* this.lastTickTime
  isTabVisible,    \* this.isTabVisible (= !document.hidden after every visibilitychange)
  storage,         \* localStorage['timerEngine:state']
  now,             \* performance.now()
  rafQueue,        \* the browser's pending requestAnimationFrame callbacks (ids)
  intervals,       \* the browser's armed setInterval timers (ids)
  intervalDue,     \* the time the armed interval is next due
  emitted,         \* the events dispatched by the last operation or callback, in order
  op,              \* the last operation or callback: its name and whether it threw
  arg,             \* the argument of the last configure() call
  configures,      \* history: configure() calls made
  hides,           \* history: times the tab was hidden
  focusDone,       \* history: focus phases completed since the last reset()
  startRemaining,  \* history: remainingTime when the current run was started
  startedAt,       \* history: performance.now() at the start() that began the current run
  jumps,           \* history: backward clock readings so far
  instance,        \* TimerEngine.instance is this engine (FALSE: it is null)
  stale,           \* the engine destroyed and replaced earlier: "none", "stopped" or "running"
  held,            \* the object a caller got from getState() or getConfig()
  panelIsRunning,  \* ControlPanel's own state.isRunning
  visibilityListeners, \* visibilitychange listeners engines have on the document
  ranFor           \* history: time spent running in the phase since it was
                   \* entered, recorded where time passes by AdvanceRunning

vars == <<state, config, startTimestamp, pausedDuration, rafId, intervalId,
          lastTickTime, isTabVisible, storage, now, rafQueue, intervals,
          intervalDue, emitted, op, arg, configures, hides, focusDone,
          startRemaining, startedAt, jumps, instance, stale, held,
          panelIsRunning, visibilityListeners, ranFor>>

references == <<instance, stale, held, visibilityListeners>>

engine == <<state, config, startTimestamp, pausedDuration, rafId, intervalId,
            lastTickTime, isTabVisible, storage, rafQueue, intervals, intervalDue>>

-----------------------------------------------------------------------------
(* Bounds of the model *)

MaxSteps == 3
MaxConfigures == 1
MaxHides == 1
MaxJumps == 1
MaxEngines == 2

(* Program constants *)

MinTime == 1000
MaxTime == 86400000
MinInterval == 1
MaxInterval == 10
DriftThreshold == 100
IntervalMs == 1000
TickThrottle == 100

\* Time advances in steps of the corrector's period.
TimeStep == IntervalMs
DefaultFocusTime == 1500000
DefaultShortBreakTime == 300000
DefaultLongBreakTime == 900000
DefaultLongBreakInterval == 4

-----------------------------------------------------------------------------
(* JavaScript values *)

NegInf == 0 - 2000000000
PosInf == 0 - NegInf
NaN == 0 - 2000000001
Null == 0 - 1

IsNaN(x) == x = NaN

\* Math.max(a, b) and Math.min(a, b): NaN if either argument is NaN.
MathMax(a, b) == IF IsNaN(a) \/ IsNaN(b) THEN NaN ELSE IF a >= b THEN a ELSE b

MathMin(a, b) == IF IsNaN(a) \/ IsNaN(b) THEN NaN ELSE IF a <= b THEN a ELSE b

\* a - b on numbers: NaN propagates.
JsSub(a, b) == IF IsNaN(a) \/ IsNaN(b) THEN NaN ELSE a - b

\* Math.abs(a)
MathAbs(a) == IF IsNaN(a) THEN NaN ELSE IF a < 0 THEN 0 - a ELSE a

\* a <= b and a > b: false when either side is NaN.
JsLe(a, b) == ~IsNaN(a) /\ ~IsNaN(b) /\ a <= b

JsGt(a, b) == ~IsNaN(a) /\ ~IsNaN(b) /\ a > b

\* Math.floor(a / b) for finite a >= 0, b > 0
FloorDiv(a, b) == a \div b

\* a % b for non-negative integers a and b > 0; NaN % b is NaN (never equal to 0).
JsMod(a, b) == IF IsNaN(a) \/ IsNaN(b) THEN NaN ELSE a % b

-----------------------------------------------------------------------------
(* Configuration: configure() and validateConfig() *)

Keys == {"focusTime", "shortBreakTime", "longBreakTime", "longBreakInterval"}

DurationKeys == {"focusTime", "shortBreakTime", "longBreakTime"}

\* A value passed in a configuration object: its typeof tag t and the number v
\* that Math.min/Math.max coerce it to (ToNumber).
Val(t, v) == [t |-> t, v |-> v]

Num(n) == Val("number", n)

\* The keys of a configuration object whose value is not undefined.
Provided(newConfig) == {k \in DOMAIN newConfig : newConfig[k].t # "undefined"}

\* Math.max(lo, Math.min(hi, x))
Clamp(lo, hi, x) == MathMax(lo, MathMin(hi, x))

validateConfig(newConfig) ==
  [k \in Provided(newConfig) |->
     IF k = "longBreakInterval"
       THEN Clamp(MinInterval, MaxInterval, newConfig[k].v)
       ELSE Clamp(MinTime, MaxTime, newConfig[k].v)]

\* { ...base, ...over }
Merge(base, over) ==
  [k \in DOMAIN base \cup DOMAIN over |-> IF k \in DOMAIN over THEN over[k] ELSE base[k]]

-----------------------------------------------------------------------------
(* The engine as one value, so that a method is a function of it *)

Self ==
  [state |-> state, config |-> config, startTimestamp |-> startTimestamp,
   pausedDuration |-> pausedDuration, rafId |-> rafId, intervalId |-> intervalId,
   lastTickTime |-> lastTickTime, isTabVisible |-> isTabVisible, storage |-> storage,
   rafQueue |-> rafQueue, intervals |-> intervals, intervalDue |-> intervalDue,
   out |-> <<>>]

\* emit(event, data)
emit(e, event, data) == [e EXCEPT !.out = Append(@, [type |-> event, detail |-> data])]

\* JSON.stringify of a number: NaN and the infinities are written as null.
JsonNum(x) == IF IsNaN(x) \/ x = PosInf \/ x = NegInf THEN Null ELSE x

\* saveState(): the snapshot written to localStorage.
saveState(e) ==
  [e EXCEPT !.storage =
     [state |-> [e.state EXCEPT !.remainingTime = JsonNum(@), !.totalTime = JsonNum(@)],
      config |-> [k \in DOMAIN e.config |-> JsonNum(e.config[k])]]]

\* The configured duration of a phase.
PhaseTime(cfg, phase) ==
  CASE phase = "focus" -> cfg.focusTime
    [] phase = "shortBreak" -> cfg.shortBreakTime
    [] phase = "longBreak" -> cfg.longBreakTime

\* resetToPhase() that refills remainingTime but leaves totalTime of the old phase.
resetToPhase_KeepsTotal(e, phase) ==
  IF phase \in {"focus", "shortBreak", "longBreak"}
    THEN [e EXCEPT !.state.phase = phase,
                   !.state.remainingTime = PhaseTime(e.config, phase)]
    ELSE [e EXCEPT !.state.phase = phase]

resetToPhase(e, phase) ==
  IF phase \in {"focus", "shortBreak", "longBreak"}
    THEN [e EXCEPT !.state.phase = phase,
                   !.state.remainingTime = PhaseTime(e.config, phase),
                   !.state.totalTime = PhaseTime(e.config, phase)]
    ELSE [e EXCEPT !.state.phase = phase]

\* The smallest handle the browser has not handed out among the pending ones.
FreshId(used) == CHOOSE i \in 1..(Cardinality(used) + 1) : i \notin used

\* requestAnimationFrame(tick) at the end of tick and in startPrecisionTimer
requestFrame(e) ==
  LET id == FreshId(e.rafQueue)
  IN [e EXCEPT !.rafId = id, !.rafQueue = @ \cup {id}]

startPrecisionTimer(e, t) ==
  LET f == requestFrame(e)
      id == FreshId(f.intervals)
  IN [f EXCEPT !.intervalId = id, !.intervals = @ \cup {id}, !.intervalDue = t + IntervalMs]

\* stopPrecisionTimer() that cancels the animation frame but leaves the interval armed.
stopPrecisionTimer_LeavesInterval(e) ==
  IF e.rafId # Null /\ e.rafId # 0
    THEN [e EXCEPT !.rafQueue = @ \ {e.rafId}, !.rafId = Null]
    ELSE e

stopPrecisionTimer(e) ==
  LET a == IF e.rafId # Null /\ e.rafId # 0
             THEN [e EXCEPT !.rafQueue = @ \ {e.rafId}, !.rafId = Null]
             ELSE e
  IN IF a.intervalId # Null /\ a.intervalId # 0
       THEN [a EXCEPT !.intervals = @ \ {a.intervalId}, !.intervalId = Null,
                      !.intervalDue = 0]
       ELSE a

\* configure() that never resizes the current phase.
configure_NoResize(e, newConfig) ==
  LET a == [e EXCEPT !.config = Merge(@, validateConfig(newConfig))]
      c == saveState(a)
  IN emit(c, "timer:configured", [config |-> c.config])

\* configure() that resizes the current phase even while the timer is running.
configure_AlwaysResize(e, newConfig) ==
  LET a == [e EXCEPT !.config = Merge(@, validateConfig(newConfig))]
      c == saveState(resetToPhase(a, a.state.phase))
  IN emit(c, "timer:configured", [config |-> c.config])

configure(e, newConfig) ==
  LET a == [e EXCEPT !.config = Merge(@, validateConfig(newConfig))]
      b == IF ~a.state.isRunning THEN resetToPhase(a, a.state.phase) ELSE a
      c == saveState(b)
  IN emit(c, "timer:configured", [config |-> c.config])

\* start() that leaves the start timestamp as it was.
start_NoAnchor(e, t) ==
  IF e.state.isRunning THEN e
  ELSE
    LET a == [e EXCEPT !.state.isRunning = TRUE, !.lastTickTime = t]
        b == saveState(startPrecisionTimer(a, t))
    IN emit(b, "timer:start",
            [phase |-> b.state.phase, totalTime |-> b.state.totalTime,
             remainingTime |-> b.state.remainingTime])

\* start() without its guard: every call re-arms.
start_Unguarded(e, t) ==
  LET a == [e EXCEPT !.state.isRunning = TRUE, !.startTimestamp = t, !.lastTickTime = t]
      b == saveState(startPrecisionTimer(a, t))
  IN emit(b, "timer:start",
          [phase |-> b.state.phase, totalTime |-> b.state.totalTime,
           remainingTime |-> b.state.remainingTime])

start(e, t) ==
  IF e.state.isRunning THEN e
  ELSE
    LET a == [e EXCEPT !.state.isRunning = TRUE, !.startTimestamp = t, !.lastTickTime = t]
        b == saveState(startPrecisionTimer(a, t))
    IN emit(b, "timer:start",
            [phase |-> b.state.phase, totalTime |-> b.state.totalTime,
             remainingTime |-> b.state.remainingTime])

\* pause() without its guard: every call stops and emits.
pause_Unguarded(e) ==
  LET a == saveState(stopPrecisionTimer([e EXCEPT !.state.isRunning = FALSE]))
  IN emit(a, "timer:pause",
          [phase |-> a.state.phase, remainingTime |-> a.state.remainingTime])

\* pause() that puts the remaining time back to the full phase duration.
pause_Rewinds(e) ==
  IF ~e.state.isRunning THEN e
  ELSE
    LET a == saveState(stopPrecisionTimer([e EXCEPT !.state.isRunning = FALSE,
                                                   !.state.remainingTime = e.state.totalTime]))
    IN emit(a, "timer:pause",
            [phase |-> a.state.phase, remainingTime |-> a.state.remainingTime])

pause(e) ==
  IF ~e.state.isRunning THEN e
  ELSE
    LET a == saveState(stopPrecisionTimer([e EXCEPT !.state.isRunning = FALSE]))
    IN emit(a, "timer:pause",
            [phase |-> a.state.phase, remainingTime |-> a.state.remainingTime])

\* reset() that forgets to clear the cycle counters.
reset_KeepsCounters(e) ==
  LET a == saveState(resetToPhase(pause(e), "focus"))
  IN emit(a, "timer:reset", [phase |-> a.state.phase, totalTime |-> a.state.totalTime])

\* reset() that stops a running timer itself instead of calling pause().
reset_NoPause(e) ==
  LET a == resetToPhase(stopPrecisionTimer([e EXCEPT !.state.isRunning = FALSE]), "focus")
      b == saveState([a EXCEPT !.state.currentCycle = 0, !.state.sessionCount = 0])
  IN emit(b, "timer:reset", [phase |-> b.state.phase, totalTime |-> b.state.totalTime])

reset(e) ==
  LET a == resetToPhase(pause(e), "focus")
      b == saveState([a EXCEPT !.state.currentCycle = 0, !.state.sessionCount = 0])
  IN emit(b, "timer:reset", [phase |-> b.state.phase, totalTime |-> b.state.totalTime])

\* The long-break test made against the counter of the next cycle.
NextPhase_OffByOne(completedPhase, currentCycle, longBreakInterval) ==
  IF completedPhase = "focus"
    THEN IF JsMod(currentCycle + 1, longBreakInterval) = 0 THEN "longBreak" ELSE "shortBreak"
    ELSE "focus"

\* The phase entered when `completedPhase` completes, with the cycle counter
\* already incremented.
NextPhase(completedPhase, currentCycle, longBreakInterval) ==
  IF completedPhase = "focus"
    THEN IF JsMod(currentCycle, longBreakInterval) = 0 THEN "longBreak" ELSE "shortBreak"
    ELSE "focus"

\* handlePhaseComplete() without its stopPrecisionTimer() call.
handlePhaseComplete_KeepsTimers(e) ==
  LET completedPhase == e.state.phase
      a == [e EXCEPT !.state.isRunning = FALSE]
      b == IF completedPhase = "focus"
             THEN [a EXCEPT !.state.currentCycle = @ + 1, !.state.sessionCount = @ + 1]
             ELSE a
      c == [b EXCEPT !.state.phase =
              NextPhase(completedPhase, b.state.currentCycle, b.config.longBreakInterval)]
      d == saveState(resetToPhase(c, c.state.phase))
      f == emit(d, "timer:complete",
                [completedPhase |-> completedPhase, newPhase |-> d.state.phase,
                 currentCycle |-> d.state.currentCycle,
                 sessionCount |-> d.state.sessionCount])
  IN emit(f, "timer:phase-change",
          [fromPhase |-> completedPhase, toPhase |-> f.state.phase,
           cycleCount |-> f.state.currentCycle])

\* handlePhaseComplete()
handlePhaseComplete(e) ==
  LET completedPhase == e.state.phase
      a == stopPrecisionTimer([e EXCEPT !.state.isRunning = FALSE])
      b == IF completedPhase = "focus"
             THEN [a EXCEPT !.state.currentCycle = @ + 1, !.state.sessionCount = @ + 1]
             ELSE a
      c == [b EXCEPT !.state.phase =
              NextPhase(completedPhase, b.state.currentCycle, b.config.longBreakInterval)]
      d == saveState(resetToPhase(c, c.state.phase))
      f == emit(d, "timer:complete",
                [completedPhase |-> completedPhase, newPhase |-> d.state.phase,
                 currentCycle |-> d.state.currentCycle,
                 sessionCount |-> d.state.sessionCount])
  IN emit(f, "timer:phase-change",
          [fromPhase |-> completedPhase, toPhase |-> f.state.phase,
           cycleCount |-> f.state.currentCycle])

\* destroy(): pause() and stopPrecisionTimer() once more; the action adds the
\* removeEventListener call, which names this.bindVisibilityEvents, a method
\* that was never registered as a listener, and sets TimerEngine.instance to
\* null.
destroy(e) == stopPrecisionTimer(pause(e))

\* The control operations a listener registered with on() may call from inside
\* its handler; dispatchEvent runs the listeners before emit() returns.
Handlers == {"none", "start", "pause", "reset"}

listener(e, h, t) ==
  CASE h = "start" -> start(e, t)
    [] h = "pause" -> pause(e)
    [] h = "reset" -> reset(e)
    [] OTHER -> e

\* handlePhaseComplete() with a listener of timer:complete and a listener of
\* timer:phase-change: each detail object is built from this.state when its
\* emit() is reached.
handlePhaseCompleteWith(e, t, onComplete, onPhaseChange) ==
  LET completedPhase == e.state.phase
      a == stopPrecisionTimer([e EXCEPT !.state.isRunning = FALSE])
      b == IF completedPhase = "focus"
             THEN [a EXCEPT !.state.currentCycle = @ + 1, !.state.sessionCount = @ + 1]
             ELSE a
      c == [b EXCEPT !.state.phase =
              NextPhase(completedPhase, b.state.currentCycle, b.config.longBreakInterval)]
      d == saveState(resetToPhase(c, c.state.phase))
      f == listener(emit(d, "timer:complete",
                         [completedPhase |-> completedPhase, newPhase |-> d.state.phase,
                          currentCycle |-> d.state.currentCycle,
                          sessionCount |-> d.state.sessionCount]),
                    onComplete, t)
  IN listener(emit(f, "timer:phase-change",
                   [fromPhase |-> completedPhase, toPhase |-> f.state.phase,
                    cycleCount |-> f.state.currentCycle]),
              onPhaseChange, t)

\* The requestAnimationFrame callback of startPrecisionTimer.
tick(e, currentTime) ==
  IF ~e.state.isRunning THEN e
  ELSE
    LET deltaTime == currentTime - e.lastTickTime
        a == [e EXCEPT !.lastTickTime = currentTime,
                       !.state.remainingTime = MathMax(0, JsSub(@, deltaTime))]
    IN IF JsLe(a.state.remainingTime, 0) THEN handlePhaseComplete(a)
       ELSE
         LET b == IF FloorDiv(currentTime, TickThrottle)
                      # FloorDiv(currentTime - deltaTime, TickThrottle)
                    THEN emit(a, "timer:tick",
                              [remainingTime |-> a.state.remainingTime,
                               phase |-> a.state.phase,
                               progress |->
                                 [num |-> JsSub(a.state.totalTime, a.state.remainingTime),
                                  den |-> a.state.totalTime]])
                    ELSE a
         IN requestFrame(b)

\* The requestAnimationFrame callback, with those listeners registered.
tickWith(e, currentTime, t, onComplete, onPhaseChange) ==
  LET deltaTime == currentTime - e.lastTickTime
      a == [e EXCEPT !.lastTickTime = currentTime,
                     !.state.remainingTime = MathMax(0, JsSub(@, deltaTime))]
  IN IF e.state.isRunning /\ JsLe(a.state.remainingTime, 0)
       THEN handlePhaseCompleteWith(a, t, onComplete, onPhaseChange)
       ELSE tick(e, currentTime)

\* The requestAnimationFrame callback with a listener of timer:tick: the
\* listener runs inside emit(), and the next frame is requested after it,
\* whatever the listener did.
tickListening(e, currentTime, t, onTick) ==
  IF ~e.state.isRunning THEN e
  ELSE
    LET deltaTime == currentTime - e.lastTickTime
        a == [e EXCEPT !.lastTickTime = currentTime,
                       !.state.remainingTime = MathMax(0, JsSub(@, deltaTime))]
    IN IF JsLe(a.state.remainingTime, 0) THEN handlePhaseComplete(a)
       ELSE
         LET b == IF FloorDiv(currentTime, TickThrottle)
                      # FloorDiv(currentTime - deltaTime, TickThrottle)
                    THEN listener(emit(a, "timer:tick",
                                       [remainingTime |-> a.state.remainingTime,
                                        phase |-> a.state.phase,
                                        progress |->
                                          [num |-> JsSub(a.state.totalTime,
                                                         a.state.remainingTime),
                                           den |-> a.state.totalTime]]),
                                  onTick, t)
                    ELSE a
         IN requestFrame(b)

\* A corrector that completes the phase itself once the time is up.
corrector_Completes(e, t) ==
  IF ~e.state.isRunning THEN e
  ELSE
    LET expectedRemaining == JsSub(e.state.totalTime, t - e.startTimestamp)
    IN IF JsLe(expectedRemaining, 0)
         THEN handlePhaseComplete(e)
         ELSE IF JsGt(MathAbs(JsSub(e.state.remainingTime, expectedRemaining)), DriftThreshold)
                THEN [e EXCEPT !.state.remainingTime = MathMax(0, expectedRemaining)]
                ELSE e

\* A corrector that already overwrites at a difference of exactly the threshold.
corrector_AtThreshold(e, t) ==
  IF ~e.state.isRunning THEN e
  ELSE
    LET expectedRemaining == JsSub(e.state.totalTime, t - e.startTimestamp)
    IN IF JsGt(MathAbs(JsSub(e.state.remainingTime, expectedRemaining)), DriftThreshold - 1)
         THEN [e EXCEPT !.state.remainingTime = MathMax(0, expectedRemaining)]
         ELSE e

\* The setInterval callback of startPrecisionTimer.
corrector(e, t) ==
  IF ~e.state.isRunning THEN e
  ELSE
    LET actualElapsed == t - e.startTimestamp
        expectedRemaining == JsSub(e.state.totalTime, actualElapsed)
    IN IF JsGt(MathAbs(JsSub(e.state.remainingTime, expectedRemaining)), DriftThreshold)
         THEN [e EXCEPT !.state.remainingTime = MathMax(0, expectedRemaining)]
         ELSE e

\* bindVisibilityEvents(): adds one (anonymous) listener to the document.
bindVisibilityEvents(n) == n + 1

\* document.removeEventListener('visibilitychange', fn): takes a listener off
\* only if fn is a function that was registered.
removeEventListener(n, registered) == IF registered /\ n > 0 THEN n - 1 ELSE n

\* The visibilitychange listener of bindVisibilityEvents.
onVisibilityChange(e, hidden, t) ==
  IF hidden
    THEN [e EXCEPT !.isTabVisible = FALSE, !.pausedDuration = t]
    ELSE
      LET a == [e EXCEPT !.isTabVisible = TRUE]
      IN IF a.state.isRunning /\ a.pausedDuration # 0
           THEN [a EXCEPT !.startTimestamp = @ + (t - a.pausedDuration)]
           ELSE a

-----------------------------------------------------------------------------
(* The state machine *)

DefaultState ==
  [phase |-> "focus", remainingTime |-> DefaultFocusTime, totalTime |-> DefaultFocusTime,
   isRunning |-> FALSE, currentCycle |-> 0, sessionCount |-> 0]

DefaultConfig ==
  [focusTime |-> DefaultFocusTime, shortBreakTime |-> DefaultShortBreakTime,
   longBreakTime |-> DefaultLongBreakTime, longBreakInterval |-> DefaultLongBreakInterval]

NoStorage == [state |-> [phase |-> "none"], config |-> [k \in {} |-> 0]]

\* An object in a caller's hands: alias tells whether it is the engine's own
\* object (a write to it is a write to the engine) or an object of its own.
NoSnapshot == [kind |-> "none", alias |-> FALSE, value |-> Null]

\* The defect getState() guards against: handing out this.state itself.
getState_Live(e) == [kind |-> "state", alias |-> TRUE, value |-> e.state]

\* getState(): { ...this.state }, a new object with the same (primitive) fields
getState(e) == [kind |-> "state", alias |-> FALSE, value |-> e.state]

\* getConfig(): { ...this.config }
getConfig(e) == [kind |-> "config", alias |-> FALSE, value |-> e.config]

\* What the caller reads in the held object now.
Seen ==
  IF held.alias
    THEN (IF held.kind = "state" THEN state ELSE config)
    ELSE held.value

NoArg == [k \in {} |-> Num(0)]

\* The constructor with an empty localStorage, in a visible document.
Init ==
  /\ state = DefaultState
  /\ config = DefaultConfig
  /\ startTimestamp = Null
  /\ pausedDuration = 0
  /\ rafId = Null
  /\ intervalId = Null
  /\ lastTickTime = Null
  /\ isTabVisible = TRUE
  /\ storage = NoStorage
  /\ now = 0
  /\ rafQueue = {}
  /\ intervals = {}
  /\ intervalDue = 0
  /\ emitted = <<>>
  /\ op = [name |-> "new", threw |-> FALSE]
  /\ arg = NoArg
  /\ configures = 0
  /\ hides = 0
  /\ focusDone = 0
  /\ startRemaining = DefaultFocusTime
  /\ startedAt = Null
  /\ jumps = 0
  /\ instance = TRUE
  /\ stale = "none"
  /\ held = NoSnapshot
  /\ panelIsRunning = FALSE
  /\ visibilityListeners = bindVisibilityEvents(0)
  /\ ranFor = 0

\* loadState() that restores the snapshot's isRunning flag as saved.
loadState_KeepsRunning(e) ==
  IF e.storage = NoStorage \/ "state" \notin DOMAIN e.storage THEN e
  ELSE [e EXCEPT !.state = Merge(@, e.storage.state),
                 !.config = Merge(@, IF "config" \in DOMAIN e.storage
                                       THEN e.storage.config ELSE <<>>)]

\* loadState(): nothing is restored when the item is absent, when JSON.parse
\* throws, or when the parsed value has no `state` (the assignment
\* `state.isRunning = false` throws); the catch clause swallows the error.
\* Otherwise the saved state, with isRunning forced to false, and the saved
\* configuration are spread over the defaults, field by field, as they are.
loadState(e) ==
  IF e.storage = NoStorage \/ "state" \notin DOMAIN e.storage THEN e
  ELSE
    LET saved == e.storage.state
        restored == [k \in DOMAIN saved \cup {"isRunning"} |->
                       IF k = "isRunning" THEN FALSE ELSE saved[k]]
    IN [e EXCEPT !.state = Merge(@, restored),
                 !.config = Merge(@, IF "config" \in DOMAIN e.storage
                                       THEN e.storage.config ELSE <<>>)]

\* new TimerEngine() in a freshly loaded page whose localStorage holds `item`.
constructor(item, visible) ==
  loadState([state |-> DefaultState, config |-> DefaultConfig, startTimestamp |-> Null,
             pausedDuration |-> 0, rafId |-> Null, intervalId |-> Null,
             lastTickTime |-> Null, isTabVisible |-> visible, storage |-> item,
             rafQueue |-> {}, intervals |-> {}, intervalDue |-> 0, out |-> <<>>])

\* The time spent running in the phase, after a step with those events: a
\* phase is entered anew when a completion or reset() went through resetToPhase.
Entered(t, out) ==
  IF \E i \in 1..Len(out) : out[i].type \in {"timer:phase-change", "timer:reset"}
    THEN 0 ELSE t

\* A control panel whose flag is not cleared by timer:complete.
bindTimerEvents_IgnoresComplete(flag, out) ==
  LET seen == {i \in 1..Len(out) :
                 out[i].type \in {"timer:start", "timer:pause", "timer:reset"}}
      last == CHOOSE i \in seen : \A j \in seen : j <= i
  IN IF seen = {} THEN flag ELSE out[last].type = "timer:start"

\* ControlPanel.bindTimerEvents: its flag follows the events of the engine,
\* set by timer:start and cleared by timer:pause, timer:reset and
\* timer:complete; the last of them dispatched decides.
bindTimerEvents(flag, out) ==
  LET seen == {i \in 1..Len(out) :
                 out[i].type \in {"timer:start", "timer:pause", "timer:reset",
                                  "timer:complete"}}
      last == CHOOSE i \in seen : \A j \in seen : j <= i
  IN IF seen = {} THEN flag ELSE out[last].type = "timer:start"

\* ControlPanel.handleStartPause(): toggles on the panel's own flag.
handleStartPause(e, flag, t) == IF flag THEN pause(e) ELSE start(e, t)

\* KeyboardManager's Space shortcut: toggles on timerEngine.getState().isRunning.
timerToggle(e, t) == IF e.state.isRunning THEN pause(e) ELSE start(e, t)

\* The engine after a method or callback returned e.
Becomes(e) ==
  /\ state' = e.state
  /\ config' = e.config
  /\ startTimestamp' = e.startTimestamp
  /\ pausedDuration' = e.pausedDuration
  /\ rafId' = e.rafId
  /\ intervalId' = e.intervalId
  /\ lastTickTime' = e.lastTickTime
  /\ isTabVisible' = e.isTabVisible
  /\ storage' = e.storage
  /\ rafQueue' = e.rafQueue
  /\ intervals' = e.intervals
  /\ intervalDue' = e.intervalDue
  /\ emitted' = e.out

Returned(name) == [name |-> name, threw |-> FALSE]

\* A timer:complete event among the events e dispatched.
Completed(e) == \E i \in 1..Len(e.out) : e.out[i].type = "timer:complete"

\* timer.configure(newConfig)
Configure(newConfig) ==
  /\ configures < MaxConfigures
  /\ configures' = configures + 1
  /\ Becomes(configure(Self, newConfig))
  /\ op' = Returned("configure")
  /\ arg' = newConfig
  /\ UNCHANGED references
  /\ panelIsRunning' = bindTimerEvents(panelIsRunning, emitted')
  /\ ranFor' = Entered(ranFor, emitted')
  /\ startRemaining' = IF state.isRunning THEN startRemaining ELSE state'.remainingTime
  /\ UNCHANGED <<startedAt, jumps, now, hides, focusDone>>

\* timer.start()
Start ==
  /\ Becomes(start(Self, now))
  /\ op' = Returned("start")
  /\ startRemaining' = IF state.isRunning THEN startRemaining ELSE state.remainingTime
  /\ startedAt' = IF state.isRunning THEN startedAt ELSE now
  /\ arg' = NoArg
  /\ UNCHANGED references
  /\ panelIsRunning' = bindTimerEvents(panelIsRunning, emitted')
  /\ ranFor' = Entered(ranFor, emitted')
  /\ UNCHANGED <<jumps, now, configures, hides, focusDone>>

\* timer.pause()
Pause ==
  /\ Becomes(pause(Self))
  /\ op' = Returned("pause")
  /\ arg' = NoArg
  /\ UNCHANGED references
  /\ panelIsRunning' = bindTimerEvents(panelIsRunning, emitted')
  /\ ranFor' = Entered(ranFor, emitted')
  /\ UNCHANGED <<startedAt, jumps, now, configures, hides, focusDone, startRemaining>>

\* timer.reset()
Reset ==
  /\ Becomes(reset(Self))
  /\ op' = Returned("reset")
  /\ focusDone' = 0
  /\ startRemaining' = state'.remainingTime
  /\ arg' = NoArg
  /\ UNCHANGED references
  /\ panelIsRunning' = bindTimerEvents(panelIsRunning, emitted')
  /\ ranFor' = Entered(ranFor, emitted')
  /\ UNCHANGED <<startedAt, jumps, now, configures, hides>>

\* The browser runs a pending animation-frame callback; it runs none in a hidden tab.
Frame ==
  /\ isTabVisible
  /\ \E id \in rafQueue :
       LET e == tick([Self EXCEPT !.rafQueue = @ \ {id}], now)
       IN /\ Becomes(e)
          /\ focusDone' = IF Completed(e) /\ state.phase = "focus"
                            THEN focusDone + 1 ELSE focusDone
          /\ startRemaining' = IF Completed(e) THEN e.state.remainingTime ELSE startRemaining
  /\ op' = Returned("frame")
  /\ arg' = NoArg
  /\ UNCHANGED references
  /\ panelIsRunning' = bindTimerEvents(panelIsRunning, emitted')
  /\ ranFor' = Entered(ranFor, emitted')
  /\ UNCHANGED <<startedAt, jumps, now, configures, hides>>

\* The browser runs the interval callback, no earlier than it is due.
Interval ==
  /\ now >= intervalDue
  /\ \E id \in intervals :
       Becomes([corrector(Self, now) EXCEPT !.intervalDue = now + IntervalMs])
  /\ op' = Returned("interval")
  /\ arg' = NoArg
  /\ UNCHANGED references
  /\ panelIsRunning' = bindTimerEvents(panelIsRunning, emitted')
  /\ ranFor' = Entered(ranFor, emitted')
  /\ UNCHANGED <<startedAt, jumps, now, configures, hides, focusDone, startRemaining>>

\* The browser runs the pending animation-frame callback that completes the
\* phase, while a listener of timer:complete or of timer:phase-change calls a
\* control operation (a frame that completes nothing reaches no such listener).
FrameListeners ==
  /\ isTabVisible
  /\ state.isRunning
  /\ JsLe(MathMax(0, JsSub(state.remainingTime, now - lastTickTime)), 0)
  /\ \E id \in rafQueue, onComplete \in Handlers, onPhaseChange \in Handlers :
       /\ <<onComplete, onPhaseChange>> # <<"none", "none">>
       /\ LET e == tickWith([Self EXCEPT !.rafQueue = @ \ {id}], now, now,
                            onComplete, onPhaseChange)
          IN /\ Becomes(e)
             /\ focusDone' = IF \E i \in 1..Len(e.out) : e.out[i].type = "timer:reset"
                               THEN 0
                               ELSE IF Completed(e) /\ state.phase = "focus"
                                      THEN focusDone + 1 ELSE focusDone
             /\ startRemaining' = IF Completed(e) THEN e.state.remainingTime
                                                  ELSE startRemaining
             /\ startedAt' = IF \E i \in 1..Len(e.out) : e.out[i].type = "timer:start"
                               THEN now ELSE startedAt
  /\ op' = Returned("frame")
  /\ arg' = NoArg
  /\ UNCHANGED references
  /\ panelIsRunning' = bindTimerEvents(panelIsRunning, emitted')
  /\ ranFor' = Entered(ranFor, emitted')
  /\ UNCHANGED <<jumps, now, configures, hides>>

\* The clock readings of the model that lie before x.
EarlierTimes(x) == {k * TimeStep : k \in 0..MaxSteps} \cap {t \in 0..(MaxSteps * TimeStep) : t < x}

\* The browser runs a pending animation-frame callback of a running timer with
\* a timestamp earlier than the one of the previous callback.
FrameBackward ==
  /\ jumps < MaxJumps
  /\ jumps' = jumps + 1
  /\ isTabVisible
  /\ state.isRunning
  /\ \E id \in rafQueue, currentTime \in EarlierTimes(lastTickTime) :
       LET e == tick([Self EXCEPT !.rafQueue = @ \ {id}], currentTime)
       IN /\ Becomes(e)
          /\ focusDone' = IF Completed(e) /\ state.phase = "focus"
                            THEN focusDone + 1 ELSE focusDone
          /\ startRemaining' = IF Completed(e) THEN e.state.remainingTime ELSE startRemaining
  /\ op' = Returned("frameBack")
  /\ arg' = NoArg
  /\ UNCHANGED references
  /\ panelIsRunning' = bindTimerEvents(panelIsRunning, emitted')
  /\ ranFor' = Entered(ranFor, emitted')
  /\ UNCHANGED <<startedAt, now, configures, hides>>

\* The browser runs the interval callback of a running timer when
\* performance.now() reads earlier than the start timestamp.
IntervalBackward ==
  /\ jumps < MaxJumps
  /\ jumps' = jumps + 1
  /\ now >= intervalDue
  /\ state.isRunning
  /\ \E id \in intervals, reading \in EarlierTimes(startTimestamp) :
       Becomes([corrector(Self, reading) EXCEPT !.intervalDue = now + IntervalMs])
  /\ op' = Returned("intervalBack")
  /\ arg' = NoArg
  /\ UNCHANGED references
  /\ panelIsRunning' = bindTimerEvents(panelIsRunning, emitted')
  /\ ranFor' = Entered(ranFor, emitted')
  /\ UNCHANGED <<startedAt, now, configures, hides, focusDone, startRemaining>>

\* The page is loaded again: the callbacks of the old page are gone and the
\* constructor runs against the localStorage the old page left.
Reload ==
  /\ Becomes(constructor(storage, isTabVisible))
  /\ op' = Returned("reload")
  /\ arg' = NoArg
  /\ instance' = TRUE
  /\ stale' = "none"
  /\ held' = NoSnapshot
  /\ panelIsRunning' = FALSE
  /\ visibilityListeners' = bindVisibilityEvents(0)
  /\ ranFor' = ranFor
  /\ startRemaining' = state'.remainingTime
  /\ startedAt' = Null
  /\ UNCHANGED <<jumps, now, configures, hides, focusDone>>

\* Items found in localStorage that no saveState() of this engine wrote.
NotJson == [raw |-> "{"]

SavedState(phase, remainingTime, totalTime) ==
  [phase |-> phase, remainingTime |-> remainingTime, totalTime |-> totalTime,
   isRunning |-> TRUE, currentCycle |-> 0, sessionCount |-> 0]

CorruptSnapshots ==
  {NotJson,
   [config |-> DefaultConfig],
   [state |-> [k \in {} |-> 0], config |-> [k \in {} |-> 0]],
   [state |-> SavedState("focus", 2 * MinTime, MinTime)],
   [state |-> SavedState("bogus", MinTime, MinTime), config |-> DefaultConfig],
   [state |-> SavedState("focus", 0 - MinTime, MinTime), config |-> DefaultConfig],
   [state |-> DefaultState, config |-> [DefaultConfig EXCEPT !.focusTime = 0]]}

\* localStorage holds such an item before the application is first used.
Corrupt(item) ==
  /\ op.name = "new"
  /\ storage' = item
  /\ op' = Returned("corrupt")
  /\ emitted' = <<>>
  /\ arg' = NoArg
  /\ UNCHANGED references
  /\ panelIsRunning' = bindTimerEvents(panelIsRunning, emitted')
  /\ ranFor' = Entered(ranFor, emitted')
  /\ UNCHANGED <<state, config, startTimestamp, pausedDuration, rafId, intervalId,
                 lastTickTime, isTabVisible, rafQueue, intervals, intervalDue, now,
                 configures, hides, focusDone, startRemaining, startedAt, jumps>>

\* The browser runs a pending animation-frame callback of a running timer while
\* a listener of timer:tick calls a control operation.
FrameTickListener ==
  /\ isTabVisible
  /\ state.isRunning
  /\ \E id \in rafQueue, onTick \in Handlers \ {"none"} :
       LET e == tickListening([Self EXCEPT !.rafQueue = @ \ {id}], now, now, onTick)
       IN /\ Becomes(e)
          /\ focusDone' = IF \E i \in 1..Len(e.out) : e.out[i].type = "timer:reset"
                            THEN 0
                            ELSE IF Completed(e) /\ state.phase = "focus"
                                   THEN focusDone + 1 ELSE focusDone
          /\ startRemaining' = IF Completed(e) \/ ~e.state.isRunning
                                 THEN e.state.remainingTime ELSE startRemaining
  /\ op' = Returned("frame")
  /\ arg' = NoArg
  /\ UNCHANGED references
  /\ panelIsRunning' = bindTimerEvents(panelIsRunning, emitted')
  /\ ranFor' = Entered(ranFor, emitted')
  /\ UNCHANGED <<startedAt, jumps, now, configures, hides>>

\* timer.destroy()
Destroy ==
  /\ Becomes(destroy(Self))
  /\ op' = Returned("destroy")
  /\ arg' = NoArg
  /\ instance' = FALSE
  /\ visibilityListeners' = removeEventListener(visibilityListeners, FALSE)
  /\ UNCHANGED <<stale, held>>
  /\ panelIsRunning' = bindTimerEvents(panelIsRunning, emitted')
  /\ ranFor' = Entered(ranFor, emitted')
  /\ UNCHANGED <<startedAt, jumps, now, configures, hides, focusDone, startRemaining>>

\* new TimerEngine() in the running page: the registered instance if there is
\* one; otherwise a new engine is constructed and registered, and the engine
\* destroyed before lives on behind the references still held, running if it
\* was started again after destroy().
New ==
  /\ IF instance
       THEN /\ UNCHANGED <<engine, startRemaining, startedAt, instance, stale,
                           visibilityListeners>>
            /\ emitted' = <<>>
       ELSE /\ visibilityListeners < MaxEngines
            /\ visibilityListeners' = bindVisibilityEvents(visibilityListeners)
            /\ Becomes(constructor(storage, isTabVisible))
            /\ startRemaining' = state'.remainingTime
            /\ startedAt' = Null
            /\ instance' = TRUE
            /\ stale' = IF state.isRunning THEN "running" ELSE "stopped"
  /\ op' = Returned("construct")
  /\ arg' = NoArg
  /\ UNCHANGED <<held, panelIsRunning, ranFor, jumps, now, configures, hides, focusDone>>

\* const snapshot = timer.getState()
GetState ==
  /\ held.kind = "none"
  /\ held' = getState(Self)
  /\ op' = Returned("getState")
  /\ arg' = NoArg
  /\ emitted' = <<>>
  /\ UNCHANGED <<engine, instance, stale, visibilityListeners, panelIsRunning,
                 ranFor, jumps, now, configures, hides, focusDone, startRemaining, startedAt>>

\* const snapshot = timer.getConfig()
GetConfig ==
  /\ held.kind = "none"
  /\ held' = getConfig(Self)
  /\ op' = Returned("getConfig")
  /\ arg' = NoArg
  /\ emitted' = <<>>
  /\ UNCHANGED <<engine, instance, stale, visibilityListeners, panelIsRunning,
                 ranFor, jumps, now, configures, hides, focusDone, startRemaining, startedAt>>

\* The writes a caller tries on the object it holds.
Writes(kind) ==
  IF kind = "state"
    THEN {<<"isRunning", TRUE>>, <<"isRunning", FALSE>>, <<"remainingTime", 0>>,
          <<"totalTime", 0>>, <<"phase", "longBreak">>, <<"currentCycle", 1>>,
          <<"sessionCount", 1>>}
    ELSE {<<"focusTime", 0>>, <<"longBreakInterval", 1>>}

\* snapshot.field = value, once per held object: a write to an aliased object
\* is a write to the engine's own state or configuration.
Tamper ==
  /\ held.kind \in {"state", "config"}
  /\ \E w \in Writes(held.kind) :
       /\ Seen[w[1]] # w[2]
       /\ IF held.alias
            THEN /\ held' = [held EXCEPT !.kind = "written"]
                 /\ state' = IF held.kind = "state"
                                THEN [state EXCEPT ![w[1]] = w[2]] ELSE state
                 /\ config' = IF held.kind = "config"
                                 THEN [config EXCEPT ![w[1]] = w[2]] ELSE config
            ELSE /\ held' = [held EXCEPT !.kind = "written",
                                          !.value = [@ EXCEPT ![w[1]] = w[2]]]
                 /\ UNCHANGED <<state, config>>
  /\ op' = Returned("tamper")
  /\ arg' = NoArg
  /\ emitted' = <<>>
  /\ UNCHANGED <<startTimestamp, pausedDuration, rafId, intervalId, lastTickTime,
                 isTabVisible, storage, rafQueue, intervals, intervalDue,
                 instance, stale, visibilityListeners, panelIsRunning, ranFor, jumps, now,
                 configures, hides,
                 focusDone, startRemaining, startedAt>>

\* One press of Space outside an input: a keydown on document, where
\* ControlPanel's listener (registered first) and KeyboardManager's listener
\* both run; stopPropagation in the second does not keep the first from having
\* run.
Space ==
  LET a == handleStartPause(Self, panelIsRunning, now)
      b == timerToggle(a, now)
      first == ~panelIsRunning /\ ~state.isRunning
      second == ~a.state.isRunning
  IN /\ Becomes(b)
     /\ panelIsRunning' = bindTimerEvents(panelIsRunning, b.out)
     /\ ranFor' = Entered(ranFor, b.out)
     /\ startedAt' = IF first \/ second THEN now ELSE startedAt
     /\ startRemaining' = IF second THEN a.state.remainingTime
                           ELSE IF first THEN state.remainingTime
                           ELSE startRemaining
     /\ op' = Returned("space")
     /\ arg' = NoArg
     /\ UNCHANGED <<references, jumps, now, configures, hides, focusDone>>

\* A click on the Start/Pause button: ControlPanel.handleStartPause() alone.
Click ==
  LET a == handleStartPause(Self, panelIsRunning, now)
      started == ~panelIsRunning /\ ~state.isRunning
  IN /\ Becomes(a)
     /\ panelIsRunning' = bindTimerEvents(panelIsRunning, a.out)
     /\ ranFor' = Entered(ranFor, a.out)
     /\ startedAt' = IF started THEN now ELSE startedAt
     /\ startRemaining' = IF started THEN state.remainingTime ELSE startRemaining
     /\ op' = Returned("click")
     /\ arg' = NoArg
     /\ UNCHANGED <<references, jumps, now, configures, hides, focusDone>>

\* visibilitychange with document.hidden = true
Hide ==
  /\ isTabVisible
  /\ hides < MaxHides
  /\ hides' = hides + 1
  /\ Becomes(onVisibilityChange(Self, TRUE, now))
  /\ op' = Returned("hide")
  /\ arg' = NoArg
  /\ UNCHANGED references
  /\ panelIsRunning' = bindTimerEvents(panelIsRunning, emitted')
  /\ ranFor' = Entered(ranFor, emitted')
  /\ UNCHANGED <<startedAt, jumps, now, configures, focusDone, startRemaining>>

\* visibilitychange with document.hidden = false
Show ==
  /\ ~isTabVisible
  /\ Becomes(onVisibilityChange(Self, FALSE, now))
  /\ op' = Returned("show")
  /\ arg' = NoArg
  /\ UNCHANGED references
  /\ panelIsRunning' = bindTimerEvents(panelIsRunning, emitted')
  /\ ranFor' = Entered(ranFor, emitted')
  /\ UNCHANGED <<startedAt, jumps, now, configures, hides, focusDone, startRemaining>>

\* Time passes.
Advance ==
  /\ now + TimeStep <= MaxSteps * TimeStep
  /\ now' = now + TimeStep
  /\ op' = Returned("advance")
  /\ emitted' = <<>>
  /\ arg' = NoArg
  /\ UNCHANGED references
  /\ panelIsRunning' = bindTimerEvents(panelIsRunning, emitted')
  /\ UNCHANGED ranFor
  /\ UNCHANGED <<startedAt, jumps, engine, configures, hides, focusDone, startRemaining>>

\* Time passes, and the time the phase has spent running is recorded.
AdvanceRunning ==
  /\ now + TimeStep <= MaxSteps * TimeStep
  /\ now' = now + TimeStep
  /\ ranFor' = IF state.isRunning THEN ranFor + TimeStep ELSE ranFor
  /\ op' = Returned("advance")
  /\ emitted' = <<>>
  /\ arg' = NoArg
  /\ UNCHANGED references
  /\ panelIsRunning' = bindTimerEvents(panelIsRunning, emitted')
  /\ UNCHANGED <<startedAt, jumps, engine, configures, hides, focusDone, startRemaining>>

\* How long before a full second the last frame callback may have run: at the
\* drift threshold, below it and above it.
FrameLeads == {DriftThreshold \div 2, DriftThreshold, DriftThreshold + DriftThreshold \div 2}

\* Time passes up to shortly before the next full second.
Linger ==
  /\ now % TimeStep = 0
  /\ now + TimeStep <= MaxSteps * TimeStep
  /\ \E lead \in FrameLeads : now' = now + (TimeStep - lead)
  /\ UNCHANGED ranFor
  /\ op' = Returned("linger")
  /\ emitted' = <<>>
  /\ arg' = NoArg
  /\ UNCHANGED references
  /\ panelIsRunning' = bindTimerEvents(panelIsRunning, emitted')
  /\ UNCHANGED <<startedAt, jumps, engine, configures, hides, focusDone, startRemaining>>

\* Time passes up to the full second.
CatchUp ==
  /\ now % TimeStep # 0
  /\ now' = now + (TimeStep - (now % TimeStep))
  /\ UNCHANGED ranFor
  /\ op' = Returned("catchUp")
  /\ emitted' = <<>>
  /\ arg' = NoArg
  /\ UNCHANGED references
  /\ panelIsRunning' = bindTimerEvents(panelIsRunning, emitted')
  /\ UNCHANGED <<startedAt, jumps, engine, configures, hides, focusDone, startRemaining>>

\* timer.skip(): TimerEngine has no member of that name, so the call raises a
\* TypeError before anything runs.
Skip ==
  /\ op' = [name |-> "skip", threw |-> TRUE]
  /\ emitted' = <<>>
  /\ arg' = NoArg
  /\ UNCHANGED references
  /\ panelIsRunning' = bindTimerEvents(panelIsRunning, emitted')
  /\ ranFor' = Entered(ranFor, emitted')
  /\ UNCHANGED <<startedAt, jumps, engine, now, configures, hides, focusDone, startRemaining>>

\* The `S` key: KeyboardManager's KeyS shortcut asks for the settings dialog and
\* calls nothing on the engine.
KeyS ==
  /\ op' = Returned("keyS")
  /\ emitted' = <<>>
  /\ arg' = NoArg
  /\ UNCHANGED references
  /\ panelIsRunning' = bindTimerEvents(panelIsRunning, emitted')
  /\ ranFor' = Entered(ranFor, emitted')
  /\ UNCHANGED <<startedAt, jumps, engine, now, configures, hides, focusDone, startRemaining>>

\* Configuration objects with every provided field valid.
DurationChoices == {MinTime, 2 * MinTime}

IntervalChoices == {1, 2}

ValidConfigs ==
  {[k \in {key} |-> Num(d)] : key \in DurationKeys, d \in DurationChoices}
  \cup {[k \in {"longBreakInterval"} |-> Num(n)] : n \in IntervalChoices}
  \cup {[k \in Keys |-> IF k = "longBreakInterval" THEN Num(n) ELSE Num(MinTime)] :
          n \in IntervalChoices}

\* Values that are not valid for a duration or for the long-break interval.
InvalidDurations ==
  {Num(0), Num(MaxTime + 1), Num(NaN), Num(PosInf), Num(NegInf),
   Val("string", NaN), Val("string", 2 * MinTime), Val("object", 0)}

InvalidIntervals == {Num(0), Num(MaxInterval + 1), Num(NaN)}

\* Configuration objects of any kind: valid ones (the largest duration among
\* them), ones with an invalid field, one mixing a valid and an invalid field,
\* one with an undefined field.
AnyConfigs ==
  ValidConfigs
  \cup {[k \in {"focusTime"} |-> Num(MaxTime)]}
  \cup {[k \in {"focusTime"} |-> x] : x \in InvalidDurations}
  \cup {[k \in {"longBreakInterval"} |-> x] : x \in InvalidIntervals}
  \cup {[k \in {"focusTime", "shortBreakTime"} |->
           IF k = "focusTime" THEN x ELSE Num(2 * MinTime)] :
          x \in {Num(0), Val("undefined", NaN)}}

\* An operation in which localStorage.setItem throws (quota exceeded) and a
\* listener of the operation's event throws, without the catch clause of
\* saveState(): the error leaves the operation before its event is emitted.
faulty_Uncaught(before, after) ==
  [engine |-> [after EXCEPT !.storage = before.storage, !.out = <<>>], threw |-> TRUE]

\* An operation that takes the engine from `before` to `after` when all goes
\* well, run while localStorage.setItem throws (quota exceeded) and a listener
\* of its event throws: saveState() catches the first error, so that only the
\* snapshot stays as it was, and dispatchEvent reports the second without
\* rethrowing it.
faulty(before, after) ==
  [engine |-> [after EXCEPT !.storage = before.storage], threw |-> FALSE]

\* start(), pause(), reset() or configure() with a valid argument, under those faults.
Faulty ==
  \E call \in {"start", "pause", "reset", "configure"}, newConfig \in ValidConfigs :
    LET after == CASE call = "start" -> start(Self, now)
                   [] call = "pause" -> pause(Self)
                   [] call = "reset" -> reset(Self)
                   [] call = "configure" -> configure(Self, newConfig)
        r == faulty(Self, after)
    IN /\ call = "configure" => configures < MaxConfigures
       /\ call # "configure" => newConfig = CHOOSE c \in ValidConfigs : TRUE
       /\ Becomes(r.engine)
       /\ op' = [name |-> call, threw |-> r.threw]
       /\ arg' = IF call = "configure" THEN newConfig ELSE NoArg
       /\ configures' = IF call = "configure" THEN configures + 1 ELSE configures
       /\ focusDone' = IF call = "reset" THEN 0 ELSE focusDone
       /\ startRemaining' =
            IF call = "reset" \/ (call = "configure" /\ ~state.isRunning)
              THEN state'.remainingTime
              ELSE IF call = "start" /\ ~state.isRunning THEN state.remainingTime
                                                        ELSE startRemaining
       /\ startedAt' = IF call = "start" /\ ~state.isRunning THEN now ELSE startedAt
       /\ UNCHANGED <<jumps, now, hides>>
       /\ UNCHANGED references
       /\ panelIsRunning' = bindTimerEvents(panelIsRunning, emitted')
       /\ ranFor' = Entered(ranFor, emitted')

\* The animation-frame callback under those faults (a completion saves and emits).
FrameFaulty ==
  /\ isTabVisible
  /\ \E id \in rafQueue :
       LET e == tick([Self EXCEPT !.rafQueue = @ \ {id}], now)
           r == faulty(Self, e)
       IN /\ Becomes(r.engine)
          /\ op' = [name |-> "frame", threw |-> r.threw]
          /\ focusDone' = IF Completed(e) /\ state.phase = "focus"
                            THEN focusDone + 1 ELSE focusDone
          /\ startRemaining' = IF Completed(e) THEN e.state.remainingTime ELSE startRemaining
  /\ arg' = NoArg
  /\ UNCHANGED references
  /\ panelIsRunning' = bindTimerEvents(panelIsRunning, emitted')
  /\ ranFor' = Entered(ranFor, emitted')
  /\ UNCHANGED <<startedAt, jumps, now, configures, hides>>

\* The control operations with valid arguments, the two timer callbacks and time.
Next ==
  \/ \E c \in ValidConfigs : Configure(c)
  \/ Start
  \/ Pause
  \/ Reset
  \/ Frame
  \/ Interval
  \/ Advance

\* The engine in a tab that stays visible.
Spec == Init /\ [][Next]_vars

NextVisibility ==
  \/ Next
  \/ Hide
  \/ Show

\* The engine in a tab that may be hidden and shown again.
SpecVisibility == Init /\ [][NextVisibility]_vars

NextSkip ==
  \/ Next
  \/ Skip
  \/ KeyS

\* The engine with callers that try to skip the phase.
SpecSkip == Init /\ [][NextSkip]_vars

NextListeners ==
  \/ Next
  \/ FrameListeners

\* The engine with listeners that call back into it.
SpecListeners == Init /\ [][NextListeners]_vars

\* Configurations that make every phase one second long.
ShortPhases ==
  {[k \in Keys |-> IF k = "longBreakInterval" THEN Num(n) ELSE Num(MinTime)] :
     n \in IntervalChoices}

NextDestroy ==
  \/ \E c \in ShortPhases : Configure(c)
  \/ Start
  \/ Pause
  \/ Reset
  \/ Frame
  \/ Interval
  \/ Advance
  \/ FrameListeners
  \/ Destroy

\* The engine with re-entrant listeners and teardown, its phases the default
\* ones or one second long.
SpecDestroy == Init /\ [][NextDestroy]_vars

NextClock ==
  \/ Next
  \/ FrameBackward
  \/ IntervalBackward

\* The engine with a clock that may read backwards.
SpecClock == Init /\ [][NextClock]_vars

NextReload ==
  \/ Next
  \/ Reload

\* The engine across page loads.
SpecReload == Init /\ [][NextReload]_vars

NextCorrupt ==
  \/ NextReload
  \/ \E item \in CorruptSnapshots : Corrupt(item)

\* The engine across page loads, with whatever localStorage held at first.
SpecCorrupt == Init /\ [][NextCorrupt]_vars

NextFaulty ==
  \/ Faulty
  \/ FrameFaulty
  \/ Interval
  \/ Advance

\* The engine in a browser whose localStorage is full, with throwing listeners.
SpecFaulty == Init /\ [][NextFaulty]_vars

NextReentrant ==
  \/ Next
  \/ FrameTickListener

\* The engine with a listener of tick that calls back into it.
SpecReentrant == Init /\ [][NextReentrant]_vars

NextSingleton ==
  \/ Next
  \/ Destroy
  \/ New

\* The engine with teardown and further constructor calls in the same page.
SpecSingleton == Init /\ [][NextSingleton]_vars

NextCopies ==
  \/ Configure([focusTime |-> Num(2 * MinTime)])
  \/ Start
  \/ Pause
  \/ Reset
  \/ Frame
  \/ Advance
  \/ GetState
  \/ GetConfig
  \/ Tamper

\* The engine, driven by its frame callback and one configuration change, with
\* a caller that keeps and writes what getState() and getConfig() returned.
SpecCopies == Init /\ [][NextCopies]_vars

NextKeys ==
  \/ Next
  \/ Space

\* The engine in the initialised application, Space key included.
SpecKeys == Init /\ [][NextKeys]_vars

NextTeardown ==
  \/ Start
  \/ Pause
  \/ Frame
  \/ Advance
  \/ Destroy
  \/ New
  \/ Hide
  \/ Show

\* Engines constructed and destroyed in one page whose tab is hidden and shown.
SpecTeardown == Init /\ [][NextTeardown]_vars

NextDrift ==
  \/ Configure([focusTime |-> Num(MinTime)])
  \/ Start
  \/ Frame
  \/ Interval
  \/ Linger
  \/ CatchUp

\* The engine with frame callbacks that stop a little before the interval
\* callback is due, so that small drifts arise.
SpecDrift == Init /\ [][NextDrift]_vars

NextRunTime ==
  \/ \E c \in ValidConfigs : Configure(c)
  \/ Start
  \/ Pause
  \/ Reset
  \/ Frame
  \/ Interval
  \/ AdvanceRunning

\* The engine in a visible tab, with the running time of each phase recorded.
SpecRunTime == Init /\ [][NextRunTime]_vars

NextPanel ==
  \/ Configure([focusTime |-> Num(MinTime)])
  \/ Start
  \/ Pause
  \/ Reset
  \/ Frame
  \/ FrameListeners
  \/ Advance
  \/ Space
  \/ Click

\* The engine in the initialised application, driven by its frame callback:
\* operations called directly, by the Start/Pause button, by the Space key and
\* by subscribers of timer:complete and timer:phase-change registered after
\* the control panel.
SpecPanel == Init /\ [][NextPanel]_vars

NextAny ==
  \/ \E c \in AnyConfigs : Configure(c)
  \/ Start
  \/ Pause
  \/ Reset
  \/ Frame
  \/ Interval
  \/ Advance

\* The engine driven with configuration objects of any kind.
SpecAny == Init /\ [][NextAny]_vars

-----------------------------------------------------------------------------
(* C1: with valid configurations only, every state observable through
   getState() has 0 <= remainingTime <= totalTime, whatever the interleaving
   of start/pause/reset/configure with frame callbacks, corrector callbacks
   and visibility changes. *)
C1_RemainingWithinTotal ==
  /\ 0 <= state.remainingTime
  /\ state.remainingTime <= state.totalTime

(* C2: while the timer stays running in one phase (no pause, reset or phase
   transition between the two observations), remainingTime never increases
   from one observation to the next, whatever the interleaving of frame and
   corrector callbacks. *)
C2_RemainingNonIncreasing ==
  [][(state.isRunning /\ state'.isRunning) =>
       state'.remainingTime <= state.remainingTime]_vars

(* C3: a timer resumed after a pause at r (0 < r < totalTime) continues from
   r: while that run lasts, every remainingTime observed is at most r. *)
C3_ResumeContinuesFromPausedValue ==
  (state.isRunning /\ 0 < startRemaining /\ startRemaining < state.totalTime) =>
    state.remainingTime <= startRemaining

-----------------------------------------------------------------------------
(* Reading the event stream *)

\* The number of events of the given type in a sequence of dispatched events.
RECURSIVE CountEvents(_, _)
CountEvents(evs, type) ==
  IF evs = <<>> THEN 0
  ELSE (IF Head(evs).type = type THEN 1 ELSE 0) + CountEvents(Tail(evs), type)

\* The step is a frame callback in which the running phase completed.
CompletesPhase == op'.name = "frame" /\ CountEvents(emitted', "timer:complete") = 1

(* C4: the break entered after the k-th focus phase completed since the last
   reset() is longBreak exactly when k mod longBreakInterval = 0, and
   shortBreak for every other k. *)
C4_LongBreakEveryNth ==
  [][(CompletesPhase /\ state.phase = "focus") =>
       /\ focusDone' = focusDone + 1
       /\ state'.phase = IF focusDone' % config.longBreakInterval = 0
                           THEN "longBreak" ELSE "shortBreak"]_vars

\* The second focus phase completed with longBreakInterval = 2: a long break.
C4_Witness ==
  /\ op.name = "frame"
  /\ CountEvents(emitted, "timer:complete") = 1
  /\ focusDone = 2
  /\ config.longBreakInterval = 2
  /\ state.phase = "longBreak"

(* C5: completing focus adds exactly 1 to the completed-focus counters and
   enters a break; completing a break enters focus and leaves the counters
   unchanged; after every transition remainingTime = totalTime = the
   configured duration of the new phase; no other step changes the counters,
   except reset(), which sets them to 0. *)
C5_PhaseStateMachine ==
  [][/\ (CompletesPhase /\ state.phase = "focus") =>
          /\ state'.currentCycle = state.currentCycle + 1
          /\ state'.sessionCount = state.sessionCount + 1
          /\ state'.phase \in {"shortBreak", "longBreak"}
     /\ (CompletesPhase /\ state.phase # "focus") =>
          /\ state'.currentCycle = state.currentCycle
          /\ state'.sessionCount = state.sessionCount
          /\ state'.phase = "focus"
     /\ CompletesPhase =>
          /\ state'.remainingTime = PhaseTime(config', state'.phase)
          /\ state'.totalTime = PhaseTime(config', state'.phase)
     /\ ~CompletesPhase =>
          \/ /\ state'.currentCycle = state.currentCycle
             /\ state'.sessionCount = state.sessionCount
          \/ /\ op'.name = "reset"
             /\ state'.currentCycle = 0
             /\ state'.sessionCount = 0]_vars

\* A break completed after a completed focus phase: back to focus, counter kept.
C5_Witness ==
  /\ op.name = "frame"
  /\ CountEvents(emitted, "timer:phase-change") = 1
  /\ emitted[2].detail.fromPhase = "shortBreak"
  /\ state.phase = "focus"
  /\ state.currentCycle = 1
  /\ state.remainingTime = config.focusTime

\* The step changes the phase because remainingTime reached 0 while running.
PhaseRanOut ==
  /\ op'.name = "frame"
  /\ state.isRunning
  /\ MathMax(0, JsSub(state.remainingTime, now - lastTickTime)) = 0

(* C6 as stated: the phase changes only when remainingTime has reached 0
   while the timer is running. *)
C6_PhaseChangesOnlyOnCompletion ==
  [][state'.phase # state.phase => PhaseRanOut]_vars

(* C6, amended: the phase changes only when remainingTime has reached 0 while
   the timer is running, or by reset(), which returns to focus; start(),
   pause(), configure() and the corrector callback never change it. *)
C6_PhaseChangesOnlyOnCompletionOrReset ==
  [][/\ state'.phase # state.phase =>
          \/ PhaseRanOut
          \/ op'.name = "reset" /\ state'.phase = "focus"
     /\ op'.name \in {"start", "pause", "configure", "interval"} =>
          state'.phase = state.phase]_vars

\* reset() of a timer running in a break: the phase went from the break to focus.
C6_Witness ==
  /\ op.name = "reset"
  /\ Len(emitted) = 2
  /\ emitted[1].type = "timer:pause"
  /\ emitted[1].detail.phase \in {"shortBreak", "longBreak"}
  /\ state.phase = "focus"

(* C7: start() on a running timer changes no engine state, captures no new
   start timestamp, arms no further frame or interval callback, writes no
   snapshot and emits no event; start() on a stopped timer emits exactly one
   `start` event -- so two start() calls in a row emit one. *)
C7_StartIdempotent ==
  [][op'.name = "start" =>
       IF state.isRunning
         THEN UNCHANGED engine /\ emitted' = <<>>
         ELSE /\ state'.isRunning
              /\ Len(emitted') = 1
              /\ emitted'[1].type = "timer:start"
              /\ Cardinality(rafQueue') = 1
              /\ Cardinality(intervals') = 1]_vars

\* A second start() on a timer that has been running for a while.
C7_Witness ==
  /\ op.name = "start"
  /\ emitted = <<>>
  /\ state.isRunning
  /\ now > startTimestamp

(* C8: pause() on a running timer sets isRunning to false, leaves
   remainingTime as it was at the call and emits exactly one `pause` event;
   pause() on a stopped timer changes nothing, emits nothing and returns
   normally. *)
C8_PauseFreezesOrNoop ==
  [][op'.name = "pause" =>
       /\ ~op'.threw
       /\ IF state.isRunning
            THEN /\ ~state'.isRunning
                 /\ state'.remainingTime = state.remainingTime
                 /\ Len(emitted') = 1
                 /\ emitted'[1].type = "timer:pause"
                 /\ emitted'[1].detail.remainingTime = state.remainingTime
            ELSE UNCHANGED engine /\ emitted' = <<>>]_vars

\* pause() of a running timer part-way through its phase.
C8_Witness ==
  /\ op.name = "pause"
  /\ Len(emitted) = 1
  /\ ~state.isRunning
  /\ 0 < state.remainingTime
  /\ state.remainingTime < state.totalTime

(* C9: when reset() returns, phase = focus, remainingTime = totalTime = the
   configured focus duration, both cycle counters are 0, isRunning is false,
   the configuration is unchanged and a `reset` event has been emitted. *)
C9_ResetPostcondition ==
  [][op'.name = "reset" =>
       /\ state' = [phase |-> "focus", remainingTime |-> config.focusTime,
                    totalTime |-> config.focusTime, isRunning |-> FALSE,
                    currentCycle |-> 0, sessionCount |-> 0]
       /\ config' = config
       /\ CountEvents(emitted', "timer:reset") = 1
       /\ emitted'[Len(emitted')].type = "timer:reset"]_vars

\* reset() of a timer that was running in a long break.
C9_Witness ==
  /\ op.name = "reset"
  /\ CountEvents(emitted, "timer:pause") = 1
  /\ emitted[1].detail.phase = "longBreak"
  /\ state.phase = "focus"
  /\ state.currentCycle = 0

-----------------------------------------------------------------------------
(* Validity of a configuration field, as the specification defines it *)

Finite(x) == ~IsNaN(x) /\ x # PosInf /\ x # NegInf

ValidField(k, x) ==
  /\ x.t = "number"
  /\ Finite(x.v)
  /\ IF k = "longBreakInterval"
       THEN MinInterval <= x.v /\ x.v <= MaxInterval
       ELSE MinTime <= x.v /\ x.v <= MaxTime

HasInvalidField(newConfig) ==
  \E k \in Provided(newConfig) : ~ValidField(k, newConfig[k])

(* C10: a configure() call with a provided field that is not a number, is NaN
   or infinite, or lies outside its bounds fails synchronously with an error;
   it does not clamp and continue. *)
C10_ConfigureRejectsInvalid ==
  (op.name = "configure" /\ HasInvalidField(arg)) => op.threw

(* C11: a configure() call with at least one invalid field leaves the
   configuration, the clock state and the persisted snapshot as they were,
   applies none of the valid fields of the call and emits no `configured`
   event. *)
C11_InvalidConfigureChangesNothing ==
  [][(op'.name = "configure" /\ HasInvalidField(arg')) =>
       /\ config' = config
       /\ state' = state
       /\ storage' = storage
       /\ CountEvents(emitted', "timer:configured") = 0]_vars

(* C12: after any sequence of configure() calls with arbitrary arguments,
   every stored duration is a finite number in [1000, 86400000] and the stored
   long-break interval is an integer in [1, 10]. *)
C12_ConfigWithinBounds ==
  /\ \A k \in DurationKeys :
       Finite(config[k]) /\ MinTime <= config[k] /\ config[k] <= MaxTime
  /\ config.longBreakInterval \in MinInterval..MaxInterval

\* The fields a configuration object provides, as numbers.
Applied(newConfig) == [k \in Provided(newConfig) |-> newConfig[k].v]

(* C13: a configure() call whose fields are all valid, made while the timer
   is not running, stores the given values, sets remainingTime = totalTime =
   the newly configured duration of the current phase (1000 ms and
   86400000 ms included), keeps phase, isRunning and the counters, and emits
   `configured` with the full resulting configuration. *)
C13_ConfigureResizesWhenStopped ==
  [][(op'.name = "configure" /\ ~HasInvalidField(arg') /\ ~state.isRunning) =>
       /\ config' = Merge(config, Applied(arg'))
       /\ state' = [state EXCEPT !.remainingTime = PhaseTime(config', state.phase),
                                 !.totalTime = PhaseTime(config', state.phase)]
       /\ emitted' = <<[type |-> "timer:configured", detail |-> [config |-> config']]>>]_vars

\* configure({focusTime: 86400000}) on a stopped timer in focus.
C13_Witness ==
  /\ op.name = "configure"
  /\ arg = [k \in {"focusTime"} |-> Num(MaxTime)]
  /\ ~state.isRunning
  /\ state.phase = "focus"
  /\ state.remainingTime = MaxTime
  /\ state.totalTime = MaxTime
  /\ emitted[1].detail.config.focusTime = MaxTime

(* C14: a configure() call with valid fields made while the timer is running
   stores the new values and leaves the clock state (totalTime and
   remainingTime among it) as it was; totalTime never changes while a phase
   stays running; the new durations are the ones a phase takes when it is next
   entered, by a phase transition or by reset(). *)
C14_RunningConfigureDefers ==
  [][/\ (op'.name = "configure" /\ state.isRunning) =>
          /\ state' = state
          /\ config' = Merge(config, Applied(arg'))
     /\ (state.isRunning /\ state'.isRunning) => state'.totalTime = state.totalTime
     /\ (CompletesPhase \/ op'.name = "reset") =>
          /\ state'.remainingTime = PhaseTime(config', state'.phase)
          /\ state'.totalTime = PhaseTime(config', state'.phase)]_vars

\* configure({focusTime: ...}) during a running focus phase of another length.
C14_Witness ==
  /\ op.name = "configure"
  /\ "focusTime" \in DOMAIN arg
  /\ state.isRunning
  /\ state.phase = "focus"
  /\ config.focusTime = arg.focusTime.v
  /\ state.totalTime # config.focusTime
  /\ now > startTimestamp

(* C15: skip(), and the `S` key that triggers it, is legal in every state and
   performs the transition of a natural completion of the current phase: the
   same next phase and counter update, the full duration of the new phase,
   `complete` and `phase-change` emitted, isRunning preserved. *)
C15_SkipActsAsCompletion ==
  [][op'.name \in {"skip", "keyS"} =>
       /\ ~op'.threw
       /\ state'.currentCycle =
            IF state.phase = "focus" THEN state.currentCycle + 1 ELSE state.currentCycle
       /\ state'.phase =
            NextPhase(state.phase, state'.currentCycle, config.longBreakInterval)
       /\ state'.remainingTime = PhaseTime(config, state'.phase)
       /\ state'.totalTime = PhaseTime(config, state'.phase)
       /\ state'.isRunning = state.isRunning
       /\ CountEvents(emitted', "timer:complete") = 1
       /\ CountEvents(emitted', "timer:phase-change") = 1]_vars

IsComplete(ev) == ev.type = "timer:complete"

IsPhaseChange(ev) == ev.type = "timer:phase-change"

(* C16: a phase transition emits exactly one `complete` event, naming the
   phase that finished, and exactly one `phase-change` event, naming the phase
   left, the phase entered and the updated cycle count -- also when a listener
   of either event calls start(), pause() or reset() from its handler. *)
C16_OneCompleteOnePhaseChange ==
  [][PhaseRanOut =>
       LET completes == SelectSeq(emitted', IsComplete)
           changes == SelectSeq(emitted', IsPhaseChange)
           cycle == IF state.phase = "focus"
                      THEN state.currentCycle + 1 ELSE state.currentCycle
           entered == NextPhase(state.phase, cycle, config.longBreakInterval)
       IN /\ Len(completes) = 1
          /\ Len(changes) = 1
          /\ completes[1].detail.completedPhase = state.phase
          /\ completes[1].detail.newPhase = entered
          /\ completes[1].detail.currentCycle = cycle
          /\ changes[1].detail.fromPhase = state.phase
          /\ changes[1].detail.toPhase = entered
          /\ changes[1].detail.cycleCount = cycle]_vars

(* C17: when a running phase completes naturally, the phase entered is
   running at once, with its callbacks armed, so that it counts down without
   another start() call. *)
C17_NextPhaseStartsItself ==
  [][CompletesPhase =>
       /\ state'.isRunning
       /\ rafQueue' # {}
       /\ intervals' # {}]_vars

(* C18: when pause(), reset() or destroy() returns, the timer is stopped and
   neither a frame callback nor an interval callback is pending; it stays so
   until the next start(); and a frame or interval callback that runs while
   the timer is stopped changes nothing and emits nothing. *)
C18_NoGhostTimer ==
  [][/\ op'.name \in {"pause", "reset", "destroy"} =>
          /\ ~state'.isRunning
          /\ rafQueue' = {}
          /\ intervals' = {}
     /\ (~state.isRunning /\ rafQueue = {} /\ intervals = {} /\ ~state'.isRunning) =>
          /\ rafQueue' = {}
          /\ intervals' = {}
          /\ op'.name \notin {"pause", "reset", "destroy", "configure"} =>
               (state' = state /\ emitted' = <<>>)
     /\ (~state.isRunning /\ op'.name \in {"frame", "interval"}) =>
          (state' = state /\ emitted' = <<>>)]_vars

\* destroy() of a timer running part-way through its phase.
C18_Witness ==
  /\ op.name = "destroy"
  /\ Len(emitted) = 1
  /\ emitted[1].type = "timer:pause"
  /\ ~state.isRunning
  /\ 0 < state.remainingTime
  /\ state.remainingTime < state.totalTime
  /\ rafQueue = {}
  /\ intervals = {}

(* C19: when the tab was hidden for a while during a run that began with the
   full phase duration and is visible again, then once the frame callback and
   the interval callback have both run again, remainingTime equals totalTime
   minus the whole time since start(), the hidden time included, within the
   100 ms drift threshold. *)
C19_HiddenTimeCounts ==
  (/\ op.name = "interval"
   /\ state.isRunning
   /\ isTabVisible
   /\ hides > 0
   /\ pausedDuration > startedAt
   /\ startRemaining = state.totalTime
   /\ lastTickTime = now)
  => MathAbs(state.remainingTime - MathMax(0, state.totalTime - (now - startedAt)))
       <= DriftThreshold

(* C20: in a backgrounded tab, where only the interval callback fires, a
   running phase still completes: the state isRunning = true with
   remainingTime = 0 does not last from one interval callback to the next. *)
C20_CompletesInBackground ==
  [][(/\ op'.name = "interval"
      /\ ~isTabVisible
      /\ state.isRunning
      /\ state.remainingTime = 0)
     => ~(state'.isRunning /\ state'.remainingTime = 0)]_vars

(* C21: a backward jump of the clock during a running phase never increases
   remainingTime: a frame callback whose timestamp is earlier than that of the
   previous callback, or an interval callback that reads the clock earlier
   than the start timestamp, leaves remainingTime at or below its previous
   value. *)
C21_BackwardClockNeverAddsTime ==
  [][op'.name \in {"frameBack", "intervalBack"} =>
       state'.remainingTime <= state.remainingTime]_vars

\* The persisted item has a state object with field f.
SnapshotHas(f) == "state" \in DOMAIN storage /\ f \in DOMAIN storage.state

(* C22: construction never resumes a countdown: whatever the persisted
   snapshot, one saved with isRunning = true included, the constructed engine
   has isRunning = false, no frame or interval callback armed, and the
   remainingTime of the snapshot, not reduced by the time since the save. *)
C22_RehydrationNeverResumes ==
  [][op'.name = "reload" =>
       /\ ~state'.isRunning
       /\ rafQueue' = {} /\ intervals' = {}
       /\ rafId' = Null /\ intervalId' = Null
       /\ (storage # NoStorage /\ SnapshotHas("remainingTime")) =>
            state'.remainingTime = storage.state.remainingTime]_vars

\* A page load some time after a running timer was saved part-way through.
C22_Witness ==
  /\ op.name = "reload"
  /\ storage # NoStorage
  /\ SnapshotHas("isRunning")
  /\ storage.state.isRunning
  /\ storage.state.remainingTime < storage.state.totalTime
  /\ ~state.isRunning
  /\ state.remainingTime = storage.state.remainingTime
  /\ now > 0

(* C23: whatever localStorage holds -- nothing, text that is not JSON, JSON
   without state or config, fields that are out of range -- construction does
   not throw and every invalid field is replaced by its default: the phase is
   one of the three phases, 0 <= remainingTime <= totalTime and the
   configuration is within its bounds. *)
C23_CorruptSnapshotRecovered ==
  [][op'.name = "reload" =>
       /\ ~op'.threw
       /\ state'.phase \in {"focus", "shortBreak", "longBreak"}
       /\ 0 <= state'.remainingTime
       /\ state'.remainingTime <= state'.totalTime
       /\ \A k \in DurationKeys : MinTime <= config'[k] /\ config'[k] <= MaxTime
       /\ config'.longBreakInterval \in MinInterval..MaxInterval]_vars

\* The step is a call or callback that changes the configuration or the clock
\* state other than by counting down: configure(), reset(), a start() of a
\* stopped timer, a pause() of a running one, a phase completion.
Mutates ==
  \/ op'.name \in {"configure", "reset"}
  \/ op'.name = "start" /\ ~state.isRunning
  \/ op'.name = "pause" /\ state.isRunning
  \/ CompletesPhase

(* C24: whenever configure(), start(), pause(), reset() or a phase completion
   has changed the engine and returns, the state and the configuration of the
   persisted snapshot equal the state and the configuration in memory. *)
C24_SnapshotTracksMutations ==
  [][Mutates => (storage'.state = state' /\ storage'.config = config')]_vars

(* C25: start(), pause(), reset() and a configure() with valid fields never
   throw, also when the storage write fails or a listener throws; the change
   of the in-memory state takes effect and the event of the operation is
   emitted all the same. *)
C25_OperationsAreTotal ==
  [][op'.name \in {"start", "pause", "reset", "configure"} =>
       /\ ~op'.threw
       /\ (op'.name = "start" /\ ~state.isRunning) =>
            (state'.isRunning /\ CountEvents(emitted', "timer:start") = 1)
       /\ (op'.name = "pause" /\ state.isRunning) =>
            (~state'.isRunning /\ CountEvents(emitted', "timer:pause") = 1)
       /\ op'.name = "reset" =>
            /\ state' = [phase |-> "focus", remainingTime |-> config.focusTime,
                         totalTime |-> config.focusTime, isRunning |-> FALSE,
                         currentCycle |-> 0, sessionCount |-> 0]
            /\ CountEvents(emitted', "timer:reset") = 1
       /\ op'.name = "configure" =>
            /\ config' = Merge(config, Applied(arg'))
            /\ CountEvents(emitted', "timer:configured") = 1]_vars

\* start() has taken effect although no snapshot could ever be written.
C25_Witness ==
  /\ op.name = "start"
  /\ ~op.threw
  /\ state.isRunning
  /\ storage = NoStorage
  /\ Len(emitted) = 1
  /\ emitted[1].type = "timer:start"

(* C26: when a listener calls start(), pause() or reset() from inside the
   handler of an emitted event, then after the outermost operation or callback
   has returned at most one frame callback and at most one interval are armed,
   and a reset() has left the timer stopped. *)
C26_ReentrancySafe ==
  /\ Cardinality(rafQueue) <= 1
  /\ Cardinality(intervals) <= 1
  /\ op.name = "reset" => ~state.isRunning

(* C27: a constructor call made while an instance is registered returns that
   instance, unchanged, so that every reference sees the same state and
   configuration; and at no time do two engines own armed timer callbacks. *)
C27_Singleton ==
  /\ [][(op'.name = "construct" /\ instance) =>
          (UNCHANGED engine /\ instance' /\ stale' = stale)]_vars
  /\ [](~(stale = "running" /\ (rafQueue # {} \/ intervals # {})))

(* C28: a write to an object returned by getState() or getConfig() leaves the
   engine's state and configuration as they were, and no engine operation
   changes what the caller reads in an object returned earlier. *)
C28_SnapshotsAreCopies ==
  /\ [][op'.name = "tamper" => UNCHANGED <<state, config>>]_vars
  /\ [][(held.kind # "none" /\ op'.name # "tamper") => Seen' = Seen]_vars

\* A snapshot of the state was written to by the caller, and the engine has
\* gone on to another state since.
C28_Witness ==
  /\ held.kind = "written"
  /\ "phase" \in DOMAIN held.value
  /\ held.value # state
  /\ op.name \in {"start", "frame", "reset"}

(* C29: whenever the timer is running its start timestamp is set, in every
   reachable state, the state after construction from a persisted snapshot
   included. *)
C29_RunningHasAnchor == state.isRunning => startTimestamp # Null

\* Running after a start() made later than time 0, its snapshot saved.
C29_Witness ==
  /\ state.isRunning
  /\ op.name = "start"
  /\ startTimestamp = now
  /\ now > 0
  /\ startedAt = now
  /\ storage # NoStorage

(* C30: with ControlPanel and KeyboardManager both listening, one press of
   Space toggles the timer once: a stopped timer ends up running and a running
   timer ends up paused. *)
C30_SpaceTogglesOnce ==
  [][op'.name = "space" => (state'.isRunning = ~state.isRunning)]_vars

(* C31: a tick event is emitted only by a running timer; it carries the
   current phase, a remaining time above 0 and a progress value equal to
   1 - remainingTime/totalTime that lies between 0 and 1. *)
C31_TickPayload ==
  [][\A i \in 1..Len(emitted') :
       emitted'[i].type = "timer:tick" =>
         LET d == emitted'[i].detail
         IN /\ state.isRunning
            /\ d.phase = state'.phase
            /\ d.remainingTime = state'.remainingTime
            /\ d.remainingTime > 0
            /\ d.progress.den = state'.totalTime
            /\ d.progress.num = state'.totalTime - state'.remainingTime
            /\ 0 <= d.progress.num
            /\ d.progress.num <= d.progress.den]_vars

(* C32: destroy() releases the listeners of the engine: the document carries
   no visibilitychange listener of an engine other than the registered one,
   however many engines were constructed and destroyed, and a destroyed
   engine does not react to a visibility change. *)
C32_DestroyReleasesListeners ==
  /\ [](visibilityListeners <= IF instance THEN 1 ELSE 0)
  /\ [][(~instance /\ op'.name \in {"hide", "show"}) =>
          UNCHANGED <<isTabVisible, pausedDuration, startTimestamp>>]_vars

(* C33: a phase completes only when the time it has spent running since it was
   entered is at least totalTime; no order of frame and interval callbacks
   subtracts the same elapsed time twice. *)
C33_NoEarlyCompletion ==
  [][CompletesPhase => ranFor >= state.totalTime]_vars

(* C34: at every frame callback of a running phase the stored remainingTime
   equals max(0, r0 - (now - startTimestamp)), r0 being the remaining time at
   the last start(): the accumulated deltas and the anchor-based value agree
   at each step, also when frame callbacks were skipped. *)
C34_DriverFollowsAnchor ==
  [][(op'.name = "frame" /\ state.isRunning /\ state'.isRunning) =>
       state'.remainingTime = MathMax(0, startRemaining - (now - startTimestamp))]_vars

\* What the interval callback computes: totalTime - (now - startTimestamp).
ExpectedRemaining == state.totalTime - (now - startTimestamp)

\* The remaining time differs from the expected one by more than the threshold.
Drifted == MathAbs(state.remainingTime - ExpectedRemaining) > DriftThreshold

(* C35: the interval callback overwrites remainingTime only when it differs
   from totalTime - (now - startTimestamp) by more than 100 ms, and then with
   max(0, totalTime - (now - startTimestamp)); at a difference of at most
   100 ms it changes nothing; phase, isRunning, totalTime and the counters are
   never changed by it. *)
C35_CorrectorFrame ==
  [][op'.name = "interval" =>
       /\ state'.remainingTime =
            IF state.isRunning /\ Drifted
              THEN MathMax(0, ExpectedRemaining)
              ELSE state.remainingTime
       /\ state'.phase = state.phase
       /\ state'.isRunning = state.isRunning
       /\ state'.totalTime = state.totalTime
       /\ state'.currentCycle = state.currentCycle
       /\ state'.sessionCount = state.sessionCount
       /\ config' = config]_vars

\* The interval callback ran on a running timer whose remaining time was off
\* by exactly the threshold, and left it so.
C35_Witness ==
  /\ op.name = "interval"
  /\ state.isRunning
  /\ MathAbs(state.remainingTime - ExpectedRemaining) = DriftThreshold

(* C36: between operations the timer resources match the run state: the timer
   is running exactly when a frame callback is pending and the interval is
   armed, and the engine never has more than one pending frame callback or
   more than one armed interval. *)
C36_ResourcesMatchRunState ==
  /\ state.isRunning <=> (rafQueue # {} /\ intervals # {})
  /\ state.isRunning <=> (rafQueue # {} \/ intervals # {})
  /\ Cardinality(rafQueue) <= 1
  /\ Cardinality(intervals) <= 1
  /\ rafQueue # {} => rafQueue = {rafId}
  /\ intervals # {} => intervals = {intervalId}

\* A phase has completed in a frame callback and the timer was started again.
C36_Witness ==
  /\ state.isRunning
  /\ op.name = "start"
  /\ state.phase = "shortBreak"
  /\ rafQueue = {rafId}
  /\ intervals = {intervalId}

(* C37: start() changes nothing but isRunning, the start timestamp and the
   armed callbacks, and pause() nothing but isRunning and the armed callbacks:
   phase, remainingTime, totalTime, the counters and the configuration are as
   before the call. *)
C37_StartPauseFrame ==
  [][/\ op'.name = "start" =>
          /\ state' = [state EXCEPT !.isRunning = TRUE]
          /\ UNCHANGED <<config, pausedDuration, isTabVisible>>
     /\ op'.name = "pause" =>
          /\ state' = [state EXCEPT !.isRunning = FALSE]
          /\ UNCHANGED <<config, startTimestamp, lastTickTime, pausedDuration,
                         isTabVisible>>]_vars

\* A timer paused part-way through a phase was started again.
C37_Witness ==
  /\ op.name = "start"
  /\ state.isRunning
  /\ startTimestamp = now
  /\ 0 < state.remainingTime
  /\ state.remainingTime < state.totalTime
  /\ Len(emitted) = 1

\* The event types of a sequence of events.
Types(evs) == [i \in 1..Len(evs) |-> evs[i].type]

\* Start and stop events alternate in evs, given whether a start was open (not
\* yet followed by a pause or a complete) before them.
RECURSIVE Alternates(_, _)
Alternates(open, evs) ==
  IF evs = <<>> THEN TRUE
  ELSE LET type == Head(evs).type
       IN CASE type = "timer:start" -> ~open /\ Alternates(TRUE, Tail(evs))
            [] type \in {"timer:pause", "timer:complete"} ->
                 open /\ Alternates(FALSE, Tail(evs))
            [] OTHER -> Alternates(open, Tail(evs))

(* C38: in the event stream start events and stop events alternate: a start is
   emitted only when no start is open, a pause or complete only when one is
   (panelIsRunning records, from the events alone, whether a start is open);
   reset() on a running timer emits pause and then reset, reset() on a stopped
   timer emits reset alone. *)
C38_EventsAlternate ==
  [][/\ Alternates(panelIsRunning, emitted')
     /\ op'.name = "reset" =>
          Types(emitted') = IF state.isRunning
                              THEN <<"timer:pause", "timer:reset">>
                              ELSE <<"timer:reset">>]_vars

\* reset() of a timer running part-way through a phase: pause, then reset.
C38_Witness ==
  /\ op.name = "reset"
  /\ Types(emitted) = <<"timer:pause", "timer:reset">>
  /\ emitted[1].detail.remainingTime < emitted[2].detail.totalTime
  /\ ~panelIsRunning

(* C39: the control panel's own isRunning flag equals the engine's isRunning
   after every engine operation and every phase completion, whichever
   component triggered it. *)
C39_PanelMirrorsEngine == panelIsRunning = state.isRunning

\* A phase has just completed in a frame callback: both flags are cleared.
C39_Witness ==
  /\ op.name = "frame"
  /\ CountEvents(emitted, "timer:complete") = 1
  /\ ~panelIsRunning
  /\ ~state.isRunning

====
